---- MODULE Spec2Model ----
(***************************************************************************)
(* Model of the HTTP tunnel servlet (src/httpTunnelServer.go): the request *)
(* dispatcher, the tunnel registry, connect, the long-poll read loop       *)
(* (doRead/stream) and the write relay (doWrite), run by concurrent        *)
(* requests.                                                               *)
(***************************************************************************)
EXTENDS Integers, Sequences, FiniteSets, TLC

\* ---------------------------------------------------------------- bounds
MaxReq == 3        \* concurrent HTTP requests
MaxTunnels == 1    \* tunnels the connect function can create
MaxBatches == 1    \* instruction batches one source can produce
MaxChunks == 2     \* chunks in the body of a write request

Req == 1..MaxReq
Tun == 1..MaxTunnels

\* ------------------------------------------------------------- constants
ReadPrefix == <<"r", "e", "a", "d", ":">>
WritePrefix == <<"w", "r", "i", "t", "e", ":">>
ReadPrefixLength == Len(ReadPrefix)
WritePrefixLength == Len(WritePrefix)
UuidLength == 36
ConnectQuery == <<"c", "o", "n", "n", "e", "c", "t">>
Sentinel == <<"0", ".", ";">>

Digit == <<"0", "1", "2", "3", "4", "5", "6", "7", "8", "9">>

\* tunnel.GetUUID().String(): 36 printable characters, distinct per tunnel.
\* UUID(0) is an identity no tunnel has.
UUID(t) == [i \in 1..UuidLength |-> IF i = UuidLength THEN Digit[t + 1] ELSE "0"]

\* One instruction batch of the source (non-empty, opaque).
Batch(n) == <<Digit[n + 1], ".", "x", ";">>

\* strings.HasPrefix
HasPrefix(s, p) == Len(s) >= Len(p) /\ SubSeq(s, 1, Len(p)) = p

\* Go slice expression s[lo:hi] panics unless lo <= hi <= len(s).
SliceInRange(s, lo, hi) == lo <= hi /\ hi <= Len(s)
\* Mutation: the slice runs to the end of the query.
SliceToEnd(s, lo, hi) == SubSeq(s, lo + 1, Len(s))

Slice(s, lo, hi) == SubSeq(s, lo + 1, hi)

\* Queries of a well-behaved client: connect, and reads and writes of the
\* identities connect can return.
CoreQueries ==
  {ConnectQuery}
  \cup {ReadPrefix \o UUID(t) : t \in Tun}
  \cup {WritePrefix \o UUID(t) : t \in Tun}

\* Any client: also empty and unknown operations, identities that are too
\* short or that no tunnel has, and identities followed by a suffix.
ShortId == <<"a", "b">>
Suffix == <<"?", "1">>
Queries ==
  CoreQueries
  \cup {<<>>, <<"p", "i", "n", "g">>, ConnectQuery \o Suffix,
        ReadPrefix, ReadPrefix \o ShortId, WritePrefix \o ShortId,
        ReadPrefix \o UUID(0), WritePrefix \o UUID(0)}
  \cup {ReadPrefix \o UUID(t) \o Suffix : t \in Tun}
  \cup {WritePrefix \o UUID(t) \o Suffix : t \in Tun}

\* Error kinds (ErrGuac.Kind); "raw" is an error that is not an *ErrGuac.
ErrKinds == {"ErrClient", "ErrResourceNotFound", "ErrServer", "ErrOther", "ErrConnectionClosed"}

VARIABLES
  tunnels,       \* HttpTunnelServlet.tunnels: set of <<UUID string, tunnel>> entries
  nextTunnel,    \* number of tunnels the connect function has created
  closeCount,    \* per tunnel: invocations of Close by the bridge
  deregCount,    \* per tunnel: invocations of deregisterTunnel
  readerHolder,  \* per tunnel: request holding the reader role, 0 if free
  readerQueue,   \* per tunnel: requests blocked in AcquireReader, in arrival order
  writerHolder,  \* per tunnel: request holding the writer role, 0 if free
  writerQueue,   \* per tunnel: requests blocked in AcquireWriter
  srcCount,      \* per tunnel: batches the instruction source has produced
  srcLen,        \* per tunnel: batches its instruction source holds
  flusher,       \* whether the server's ResponseWriter implements http.Flusher
  received,      \* per tunnel: the chunks its write side has received, in order
  req            \* per request: the handler's position and locals

vars == <<tunnels, nextTunnel, closeCount, deregCount, readerHolder, readerQueue,
          writerHolder, writerQueue, srcCount, srcLen, flusher, received, req>>

IdleReq ==
  [pc |-> "idle", query |-> <<>>, op |-> "none", tun |-> 0,
   err |-> "nil", msg |-> 0, chunks |-> 0, copied |-> 0, body |-> <<>>, flushed |-> 0, hdr |-> {},
   hdrFlushed |-> FALSE, wouldBlock |-> FALSE,
   firstFail |-> FALSE, yielded |-> FALSE, respFail |-> FALSE,
   relayFail |-> FALSE, closeErr |-> FALSE, deregs |-> 0, closes |-> 0,
   ret |-> "none"]

\* The servlet after NewHTTPTunnelServlet, with instruction sources that hold
\* len batches and a server whose ResponseWriter implements http.Flusher or
\* not, as flushers allows.
InitWith(len, flushers) ==
  /\ tunnels = {}
  /\ nextTunnel = 0
  /\ closeCount = [t \in Tun |-> 0]
  /\ deregCount = [t \in Tun |-> 0]
  /\ readerHolder = [t \in Tun |-> 0]
  /\ readerQueue = [t \in Tun |-> <<>>]
  /\ writerHolder = [t \in Tun |-> 0]
  /\ writerQueue = [t \in Tun |-> <<>>]
  /\ srcCount = [t \in Tun |-> 0]
  /\ flusher \in flushers
  /\ srcLen = [t \in Tun |-> len]
  /\ received = [t \in Tun |-> <<>>]
  /\ req = [r \in Req |-> IdleReq]

Init == InitWith(MaxBatches, BOOLEAN)


\* ------------------------------------------------------------- registry
\* HttpTunnelMap: Put overwrites, Get reports presence, Remove is idempotent.
MapPut(m, k, v) == {e \in m : e[1] # k} \cup {<<k, v>>}
MapHas(m, k) == \E e \in m : e[1] = k
MapGet(m, k) == (CHOOSE e \in m : e[1] = k)[2]
MapRemove(m, k) == {e \in m : e[1] # k}

\* Mutation: the tunnel is not put into the map.
registerTunnelNoPut(m, t) == m

registerTunnel(m, t) == MapPut(m, UUID(t), t)

\* Mutation: deregisterTunnel leaves the entry in the registry.
deregisterTunnelKeepsEntry(m, t) == m

deregisterTunnel(m, t) == MapRemove(m, UUID(t))

\* Mutation: a missing tunnel is reported as a client error.
getTunnelWrongKind(m, tunnelUUID) ==
  IF MapHas(m, tunnelUUID) THEN <<MapGet(m, tunnelUUID), "nil">>
  ELSE <<0, "ErrClient">>

\* getTunnel: <<tunnel, err>>; the tunnel is 0 when there is none.
getTunnel(m, tunnelUUID) ==
  IF MapHas(m, tunnelUUID) THEN <<MapGet(m, tunnelUUID), "nil">>
  ELSE <<0, "ErrResourceNotFound">>

\* ------------------------------------------------------------ tunnel roles
\* AcquireReader/AcquireWriter: the caller gets the role when it is free and
\* nobody is queued before it, otherwise it blocks in the queue.
RoleFree(holder, queue, t) == holder[t] = 0 /\ queue[t] = <<>>

HasQueuedReaderThreads(t) == readerQueue[t] # <<>>

\* ReadSome outcomes <<has message, err>> of the instruction source.
ReadSomeOutcomes(t) ==
  {<<FALSE, "nil">>, <<FALSE, "ErrConnectionClosed">>, <<FALSE, "ErrServer">>,
   <<TRUE, "ErrServer">>}
  \cup (IF srcCount[t] < srcLen[t] THEN {<<TRUE, "nil">>} ELSE {})

\* ------------------------------------------------------------- dispatcher
Set(r, rec) == req' = [req EXCEPT ![r] = rec]

Return(rec, e) == [rec EXCEPT !.pc = "done", !.ret = e]

\* One response.Write of chunk c followed by a Flush when doFlush holds and
\* the response implements http.Flusher.
WriteChunk(rec, c) == [rec EXCEPT !.body = Append(@, c)]
\* Mutation: Flush does nothing.
FlushNothing(rec) == rec

Flush(rec) == IF flusher THEN [rec EXCEPT !.flushed = Len(rec.body)] ELSE rec

\* Mutation: a failed session establishment registers a tunnel all the same.
connectBranchRegistersOnFailure(r, rec) ==
  \/ /\ nextTunnel < MaxTunnels
     /\ nextTunnel' = nextTunnel + 1
     /\ tunnels' = registerTunnel(tunnels, nextTunnel + 1)
     /\ Set(r, Return(rec, "ErrResourceNotFound"))
  \/ /\ nextTunnel < MaxTunnels
     /\ nextTunnel' = nextTunnel + 1
     /\ tunnels' = registerTunnel(tunnels, nextTunnel + 1)
     /\ Set(r, [rec EXCEPT !.pc = "c_write", !.tun = nextTunnel + 1,
                           !.hdr = {"Cache-Control"}])

\* connect branch of handleTunnelRequestCore up to the registration.
connectBranch(r, rec) ==
  \/ /\ Set(r, Return(rec, "ErrResourceNotFound"))
     /\ UNCHANGED <<tunnels, nextTunnel>>
  \/ /\ nextTunnel < MaxTunnels
     /\ nextTunnel' = nextTunnel + 1
     /\ tunnels' = registerTunnel(tunnels, nextTunnel + 1)
     /\ Set(r, [rec EXCEPT !.pc = "c_write", !.tun = nextTunnel + 1,
                           !.hdr = {"Cache-Control"}])

\* Mutation: doRead goes on to stream without AcquireReader.
doReadEntryNoAcquire(r, rec, tunnelUUID) ==
  LET g == getTunnel(tunnels, tunnelUUID) IN
  /\ IF g[2] # "nil" THEN Set(r, Return(rec, g[2]))
     ELSE Set(r, [rec EXCEPT !.pc = "r_first", !.tun = g[1]])
  /\ UNCHANGED <<tunnels, nextTunnel>>

\* doRead up to AcquireReader.
doReadEntry(r, rec, tunnelUUID) ==
  LET g == getTunnel(tunnels, tunnelUUID) IN
  /\ IF g[2] # "nil" THEN Set(r, Return(rec, g[2]))
     ELSE Set(r, [rec EXCEPT !.pc = "r_acquire", !.tun = g[1]])
  /\ UNCHANGED <<tunnels, nextTunnel>>

\* Mutation: doWrite sets its response headers before it looks the tunnel up.
doWriteEntryHeadersFirst(r, rec, tunnelUUID) ==
  LET g == getTunnel(tunnels, tunnelUUID)
      h == [rec EXCEPT !.hdr = {"Content-Type", "Cache-Control", "Content-Length"}]
  IN
  /\ IF g[2] # "nil" THEN Set(r, Return(h, g[2]))
     ELSE Set(r, [h EXCEPT !.pc = "w_acquire", !.tun = g[1]])
  /\ UNCHANGED <<tunnels, nextTunnel>>

\* Mutation: doWrite goes on to io.Copy without AcquireWriter.
doWriteEntryNoAcquire(r, rec, tunnelUUID) ==
  LET g == getTunnel(tunnels, tunnelUUID) IN
  /\ IF g[2] # "nil" THEN Set(r, Return(rec, g[2]))
     ELSE Set(r, [rec EXCEPT !.pc = "w_copy", !.tun = g[1],
                    !.hdr = {"Content-Type", "Cache-Control", "Content-Length"}])
  /\ UNCHANGED <<tunnels, nextTunnel>>

\* doWrite up to AcquireWriter.
doWriteEntry(r, rec, tunnelUUID) ==
  LET g == getTunnel(tunnels, tunnelUUID) IN
  /\ IF g[2] # "nil" THEN Set(r, Return(rec, g[2]))
     ELSE Set(r, [rec EXCEPT !.pc = "w_acquire", !.tun = g[1],
                    !.hdr = {"Content-Type", "Cache-Control", "Content-Length"}])
  /\ UNCHANGED <<tunnels, nextTunnel>>

Panic(r, rec) == Set(r, Return(rec, "panic")) /\ UNCHANGED <<tunnels, nextTunnel>>

\* Requests are numbered in the order in which they arrive.
Arrives(r) == req[r].pc = "idle" /\ \A k \in 1..(r - 1) : req[k].pc # "idle"

\* ServeHTTP is called with a request whose RawQuery is query and whose body
\* has the given number of chunks, and handleTunnelRequestCore runs up to the
\* first blocking call of the branch it takes.
handleTunnelRequestCore(r, query, chunks) ==
  /\ Arrives(r)
  /\ LET rec == [IdleReq EXCEPT !.query = query, !.chunks = chunks] IN
     IF Len(query) = 0 THEN
       Set(r, Return([rec EXCEPT !.op = "empty"], "ErrClient"))
       /\ UNCHANGED <<tunnels, nextTunnel>>
     ELSE IF query = ConnectQuery THEN
       connectBranch(r, [rec EXCEPT !.op = "connect"])
     ELSE IF HasPrefix(query, ReadPrefix) THEN
       IF SliceInRange(query, ReadPrefixLength, ReadPrefixLength + UuidLength)
       THEN doReadEntry(r, [rec EXCEPT !.op = "read"],
                        Slice(query, ReadPrefixLength, ReadPrefixLength + UuidLength))
       ELSE Panic(r, [rec EXCEPT !.op = "read"])
     ELSE IF HasPrefix(query, WritePrefix) THEN
       IF SliceInRange(query, WritePrefixLength, WritePrefixLength + UuidLength)
       THEN doWriteEntry(r, [rec EXCEPT !.op = "write"],
                         Slice(query, WritePrefixLength, WritePrefixLength + UuidLength))
       ELSE Panic(r, [rec EXCEPT !.op = "write"])
     ELSE
       Set(r, Return([rec EXCEPT !.op = "invalid"], "ErrClient"))
       /\ UNCHANGED <<tunnels, nextTunnel>>
  /\ UNCHANGED <<closeCount, deregCount, readerHolder, readerQueue, writerHolder,
                 writerQueue, srcCount, flusher, received, srcLen>>

\* connect: response.Write of the UUID.
\* Mutation: a failed write of the UUID takes the registration back.
connectWriteFailedDeregisters(m, t) == deregisterTunnel(m, t)

\* connect: the registry after the write of the UUID failed (left as it is).
connectWriteFailed(m, t) == m

connectWrite(r) ==
  /\ req[r].pc = "c_write"
  /\ \/ /\ Set(r, Return(WriteChunk(req[r], UUID(req[r].tun)), "nil"))
        /\ UNCHANGED tunnels
     \/ /\ Set(r, Return([req[r] EXCEPT !.respFail = TRUE], "ErrServer"))
        /\ tunnels' = connectWriteFailed(tunnels, req[r].tun)
  /\ UNCHANGED <<nextTunnel, closeCount, deregCount, readerHolder,
                 readerQueue, writerHolder, writerQueue, srcCount, flusher, received, srcLen>>

\* ------------------------------------------------------------- doRead
\* The reader role is taken: headers are set and flushed, stream starts.
ReaderAcquired(rec) ==
  [rec EXCEPT !.pc = "r_first", !.hdr = {"Content-Type", "Cache-Control"},
              !.hdrFlushed = flusher]

\* tunnel.AcquireReader(): take the role or queue for it.
doReadAcquire(r) ==
  LET t == req[r].tun IN
  /\ req[r].pc = "r_acquire"
  /\ IF RoleFree(readerHolder, readerQueue, t)
     THEN /\ readerHolder' = [readerHolder EXCEPT ![t] = r]
          /\ Set(r, ReaderAcquired(req[r]))
          /\ UNCHANGED readerQueue
     ELSE /\ readerQueue' = [readerQueue EXCEPT ![t] = Append(@, r)]
          /\ Set(r, [req[r] EXCEPT !.pc = "r_wait"])
          /\ UNCHANGED readerHolder
  /\ UNCHANGED <<tunnels, nextTunnel, closeCount, deregCount, writerHolder,
                 writerQueue, srcCount, flusher, received, srcLen>>

\* A request blocked in AcquireReader gets the role once it is released.
doReadGranted(r) ==
  LET t == req[r].tun IN
  /\ req[r].pc = "r_wait"
  /\ readerHolder[t] = 0
  /\ Head(readerQueue[t]) = r
  /\ readerHolder' = [readerHolder EXCEPT ![t] = r]
  /\ readerQueue' = [readerQueue EXCEPT ![t] = Tail(@)]
  /\ Set(r, ReaderAcquired(req[r]))
  /\ UNCHANGED <<tunnels, nextTunnel, closeCount, deregCount, writerHolder,
                 writerQueue, srcCount, flusher, received, srcLen>>

\* Mutation: the reader role is kept.
ReleaseReaderSkipped(t) == UNCHANGED readerHolder

\* defer tunnel.ReleaseReader()
ReleaseReader(t) == readerHolder' = [readerHolder EXCEPT ![t] = 0]

\* stream: the pull before the loop.
streamFirstPull(r) ==
  LET t == req[r].tun IN
  /\ req[r].pc = "r_first"
  /\ \E o \in ReadSomeOutcomes(t) :
       LET rec == req[r] IN
       IF o[2] # "nil" THEN
         /\ Set(r, [rec EXCEPT !.pc = "d_dereg", !.err = o[2], !.firstFail = TRUE])
         /\ UNCHANGED srcCount
       ELSE IF o[1] THEN
         /\ srcCount' = [srcCount EXCEPT ![t] = @ + 1]
         /\ Set(r, [rec EXCEPT !.pc = "r_write", !.msg = srcCount[t] + 1])
       ELSE
         /\ Set(r, [rec EXCEPT !.pc = "r_sentinel"])
         /\ UNCHANGED srcCount
  /\ UNCHANGED <<tunnels, nextTunnel, closeCount, deregCount, readerHolder,
                 readerQueue, writerHolder, writerQueue, flusher, received, srcLen>>

\* Mutation: the loop goes on to the next pull whether a reader is queued or
\* not.
AfterBatchNeverYields(rec, queued, available) ==
  [rec EXCEPT !.pc = "r_pull", !.wouldBlock = ~available]

\* Mutation: yielding to a queued reader runs the teardown after the loop.
AfterBatchYieldTearsDown(rec, queued, available) ==
  IF queued THEN [rec EXCEPT !.pc = "s_dereg", !.yielded = TRUE]
  ELSE [rec EXCEPT !.pc = "r_pull", !.wouldBlock = ~available]

\* stream: the end of the loop body. When another reader is queued the loop
\* breaks with err = nil, so the teardown after the loop is skipped. Otherwise
\* the loop goes on to its next ReadSome, which blocks when Available()
\* reported that no batch is at hand.
AfterBatch(rec, queued, available) ==
  IF queued THEN [rec EXCEPT !.pc = "r_sentinel", !.yielded = TRUE]
  ELSE [rec EXCEPT !.pc = "r_pull", !.wouldBlock = ~available]

\* Mutation: when another reader is queued the loop breaks before the batch
\* is written.
streamWriteDropsOnYield(r) ==
  LET t == req[r].tun IN
  /\ req[r].pc = "r_write"
  /\ \/ Set(r, [req[r] EXCEPT !.pc = "d_dereg", !.err = "ErrOther", !.respFail = TRUE])
     \/ /\ HasQueuedReaderThreads(t)
        /\ Set(r, AfterBatch(req[r], TRUE, TRUE))
     \/ /\ ~HasQueuedReaderThreads(t)
        /\ \E available \in BOOLEAN :
             LET w == WriteChunk(req[r], Batch(req[r].msg))
                 f == IF available THEN w ELSE Flush(w)
             IN Set(r, AfterBatch(f, FALSE, available))
  /\ UNCHANGED <<tunnels, nextTunnel, closeCount, deregCount, readerHolder,
                 readerQueue, writerHolder, writerQueue, srcCount, flusher, received, srcLen>>

\* stream: loop body (write the batch, flush when the source would block,
\* break when another reader is queued).
streamWrite(r) ==
  LET t == req[r].tun IN
  /\ req[r].pc = "r_write"
  /\ \/ Set(r, [req[r] EXCEPT !.pc = "d_dereg", !.err = "ErrOther", !.respFail = TRUE])
     \/ \E available \in BOOLEAN :
          LET w == WriteChunk(req[r], Batch(req[r].msg))
              f == IF available THEN w ELSE Flush(w)
          IN Set(r, AfterBatch(f, HasQueuedReaderThreads(t), available))
  /\ UNCHANGED <<tunnels, nextTunnel, closeCount, deregCount, readerHolder,
                 readerQueue, writerHolder, writerQueue, srcCount, flusher, received, srcLen>>

\* stream: the loop's post statement, condition and the err check of the body.
streamPull(r) ==
  LET t == req[r].tun IN
  /\ req[r].pc = "r_pull"
  /\ \E o \in ReadSomeOutcomes(t) :
       LET rec == [req[r] EXCEPT !.wouldBlock = FALSE] IN
       IF o[1] THEN
         IF o[2] # "nil" THEN
           /\ Set(r, [rec EXCEPT !.pc = "d_dereg", !.err = o[2]])
           /\ UNCHANGED srcCount
         ELSE
           /\ srcCount' = [srcCount EXCEPT ![t] = @ + 1]
           /\ Set(r, [rec EXCEPT !.pc = "r_write", !.msg = srcCount[t] + 1])
       ELSE
         /\ Set(r, [rec EXCEPT !.pc = IF o[2] # "nil" THEN "s_dereg" ELSE "r_sentinel",
                               !.err = o[2]])
         /\ UNCHANGED srcCount
  /\ UNCHANGED <<tunnels, nextTunnel, closeCount, deregCount, readerHolder,
                 readerQueue, writerHolder, writerQueue, flusher, received, srcLen>>

\* s.deregisterTunnel(tunnel) of the handler at position from, moving to position to.
Deregister(r, from, to) ==
  LET t == req[r].tun IN
  /\ req[r].pc = from
  /\ tunnels' = deregisterTunnel(tunnels, t)
  /\ deregCount' = [deregCount EXCEPT ![t] = @ + 1]
  /\ Set(r, [req[r] EXCEPT !.pc = to, !.deregs = @ + 1])
  /\ UNCHANGED <<nextTunnel, closeCount, readerHolder, readerQueue, writerHolder,
                 writerQueue, srcCount, flusher, received, srcLen>>

\* tunnel.Close() by request r.
Close(t) == closeCount' = [closeCount EXCEPT ![t] = @ + 1]

\* stream: teardown after the loop ended on a failed pull.
streamDeregister(r) == Deregister(r, "s_dereg", "s_close")

streamClose(r) ==
  /\ req[r].pc = "s_close"
  /\ Close(req[r].tun)
  /\ Set(r, [req[r] EXCEPT !.pc = "r_sentinel", !.closes = @ + 1])
  /\ UNCHANGED <<tunnels, nextTunnel, deregCount, readerHolder, readerQueue,
                 writerHolder, writerQueue, srcCount, flusher, received, srcLen>>

\* Mutation: the marker is not written.
EndOfInstructionsMissing(rec) == Flush(rec)

\* The end-of-instructions marker, written and flushed.
EndOfInstructions(rec) == Flush(WriteChunk(rec, Sentinel))

\* stream: the end-of-instructions marker, and doRead's return. A failed
\* write makes stream return an error that is no *ErrGuac, on which the type
\* assertion of doRead panics; the deferred ReleaseReader runs either way.
streamSentinel(r) ==
  /\ req[r].pc = "r_sentinel"
  /\ \/ Set(r, Return(EndOfInstructions([req[r] EXCEPT !.err = "nil"]), "nil"))
     \/ Set(r, Return([req[r] EXCEPT !.err = "raw", !.respFail = TRUE], "panic"))
  /\ ReleaseReader(req[r].tun)
  /\ UNCHANGED <<tunnels, nextTunnel, closeCount, deregCount, readerQueue,
                 writerHolder, writerQueue, srcCount, flusher, received, srcLen>>

\* doRead: teardown after stream returned an error.
doReadDeregister(r) == Deregister(r, "d_dereg", "d_close")

\* Mutation: the marker is written for every error kind.
doReadSwitchAlwaysMarker(rec) ==
  {Return(EndOfInstructions(rec), rec.err), Return(Flush(rec), rec.err)}

\* doRead: what follows Close in the switch on the error kind. The marker is
\* written only for ErrConnectionClosed, and the result of that write is
\* ignored.
doReadSwitch(rec) ==
  IF rec.err = "ErrConnectionClosed"
  THEN {Return(EndOfInstructions(rec), rec.err), Return(Flush(rec), rec.err)}
  ELSE {Return(rec, rec.err)}

doReadClose(r) ==
  /\ req[r].pc = "d_close"
  /\ Close(req[r].tun)
  /\ \E fin \in doReadSwitch([req[r] EXCEPT !.closes = @ + 1]) : Set(r, fin)
  /\ ReleaseReader(req[r].tun)
  /\ UNCHANGED <<tunnels, nextTunnel, deregCount, readerQueue, writerHolder,
                 writerQueue, srcCount, flusher, received, srcLen>>

\* ------------------------------------------------------------- doWrite
doWriteAcquire(r) ==
  LET t == req[r].tun IN
  /\ req[r].pc = "w_acquire"
  /\ IF RoleFree(writerHolder, writerQueue, t)
     THEN /\ writerHolder' = [writerHolder EXCEPT ![t] = r]
          /\ Set(r, [req[r] EXCEPT !.pc = "w_copy"])
          /\ UNCHANGED writerQueue
     ELSE /\ writerQueue' = [writerQueue EXCEPT ![t] = Append(@, r)]
          /\ Set(r, [req[r] EXCEPT !.pc = "w_wait"])
          /\ UNCHANGED writerHolder
  /\ UNCHANGED <<tunnels, nextTunnel, closeCount, deregCount, readerHolder,
                 readerQueue, srcCount, flusher, received, srcLen>>

doWriteGranted(r) ==
  LET t == req[r].tun IN
  /\ req[r].pc = "w_wait"
  /\ writerHolder[t] = 0
  /\ Head(writerQueue[t]) = r
  /\ writerHolder' = [writerHolder EXCEPT ![t] = r]
  /\ writerQueue' = [writerQueue EXCEPT ![t] = Tail(@)]
  /\ Set(r, [req[r] EXCEPT !.pc = "w_copy"])
  /\ UNCHANGED <<tunnels, nextTunnel, closeCount, deregCount, readerHolder,
                 readerQueue, srcCount, flusher, received, srcLen>>

\* defer tunnel.ReleaseWriter()
ReleaseWriter(t) == writerHolder' = [writerHolder EXCEPT ![t] = 0]

\* The body of request r, as the chunks io.Copy reads from it.
RequestBody(r) == [i \in 1..req[r].chunks |-> <<r, i>>]

\* io.Copy(writer, request.Body): one round of its loop. It reads a chunk of
\* the body and writes it to the tunnel, returns nil when the body has ended,
\* and returns the error of a failed read or write.
doWriteCopy(r) ==
  LET t == req[r].tun
      i == req[r].copied + 1
      copy == [req[r] EXCEPT !.copied = i]
  IN
  /\ req[r].pc = "w_copy"
  /\ \/ /\ i < req[r].chunks
        /\ received' = [received EXCEPT ![t] = Append(@, RequestBody(r)[i])]
        /\ Set(r, copy)
        /\ UNCHANGED writerHolder
     \/ /\ i = req[r].chunks
        /\ received' = [received EXCEPT ![t] = Append(@, RequestBody(r)[i])]
        /\ Set(r, Return(copy, "nil"))
        /\ ReleaseWriter(t)
     \/ /\ i > req[r].chunks
        /\ Set(r, Return(req[r], "nil"))
        /\ ReleaseWriter(t)
        /\ UNCHANGED received
     \/ /\ Set(r, [req[r] EXCEPT !.pc = "w_dereg", !.err = "raw", !.relayFail = TRUE])
        /\ UNCHANGED <<writerHolder, received>>
  /\ UNCHANGED <<tunnels, nextTunnel, closeCount, deregCount, readerHolder,
                 readerQueue, writerQueue, srcCount, flusher, srcLen>>

doWriteDeregister(r) == Deregister(r, "w_dereg", "w_close")

\* err = tunnel.Close(): the result of Close is what doWrite returns.
doWriteCloseResult(rec, closeFailed) ==
  Return([rec EXCEPT !.closeErr = closeFailed,
                     !.err = IF closeFailed THEN "closeErr" ELSE "nil"],
         IF closeFailed THEN "closeErr" ELSE "nil")

doWriteClose(r) ==
  /\ req[r].pc = "w_close"
  /\ Close(req[r].tun)
  /\ \E closeFailed \in BOOLEAN :
       Set(r, doWriteCloseResult([req[r] EXCEPT !.closes = @ + 1], closeFailed))
  /\ ReleaseWriter(req[r].tun)
  /\ UNCHANGED <<tunnels, nextTunnel, deregCount, readerHolder, readerQueue,
                 writerQueue, srcCount, flusher, received, srcLen>>

\* ------------------------------------------------------------- ServeHTTP
\* What the client gets for a finished request: "ok", "error" (sendError with
\* the error's status) or "abort" (a panic unwinds the handler; also the type
\* assertion of ServeHTTP on an error that is no *ErrGuac).
ServeHTTP(rec) ==
  IF rec.ret = "nil" THEN "ok"
  ELSE IF rec.ret \in ErrKinds THEN "error"
  ELSE "abort"

\* ---------------------------------------------------------- specification
\* The clients of Spec and SpecSeq send bodies of one chunk.
Dispatch == \E r \in Req, q \in CoreQueries : handleTunnelRequestCore(r, q, 1)
ConnectWrite == \E r \in Req : connectWrite(r)
DoReadAcquire == \E r \in Req : doReadAcquire(r)
DoReadGranted == \E r \in Req : doReadGranted(r)
StreamFirstPull == \E r \in Req : streamFirstPull(r)
StreamWrite == \E r \in Req : streamWrite(r)
StreamPull == \E r \in Req : streamPull(r)
StreamDeregister == \E r \in Req : streamDeregister(r)
StreamClose == \E r \in Req : streamClose(r)
StreamSentinel == \E r \in Req : streamSentinel(r)
DoReadDeregister == \E r \in Req : doReadDeregister(r)
DoReadClose == \E r \in Req : doReadClose(r)
DoWriteAcquire == \E r \in Req : doWriteAcquire(r)
DoWriteGranted == \E r \in Req : doWriteGranted(r)
DoWriteCopy == \E r \in Req : doWriteCopy(r)
DoWriteDeregister == \E r \in Req : doWriteDeregister(r)
DoWriteClose == \E r \in Req : doWriteClose(r)

Next ==
  \/ Dispatch
  \/ ConnectWrite
  \/ DoReadAcquire
  \/ DoReadGranted
  \/ StreamFirstPull
  \/ StreamWrite
  \/ StreamPull
  \/ StreamDeregister
  \/ StreamClose
  \/ StreamSentinel
  \/ DoReadDeregister
  \/ DoReadClose
  \/ DoWriteAcquire
  \/ DoWriteGranted
  \/ DoWriteCopy
  \/ DoWriteDeregister
  \/ DoWriteClose

Spec == Init /\ [][Next]_vars

\* A client that sends any query, one request at a time: ServeHTTP has
\* returned before the next request arrives, and nothing of a request
\* outlives it but the tunnel and its registry entry. The client stops once a
\* tunnel has received MaxReq chunks.
DispatchAny ==
  /\ \A t \in Tun : Len(received[t]) < MaxReq
  /\ \E q \in Queries : handleTunnelRequestCore(1, q, 1)

ServeHTTPReturns ==
  /\ req[1].pc = "done"
  /\ req' = [req EXCEPT ![1] = IdleReq]
  /\ UNCHANGED <<tunnels, nextTunnel, closeCount, deregCount, readerHolder,
                 readerQueue, writerHolder, writerQueue, srcCount, flusher, received, srcLen>>

NextSeq ==
  \/ DispatchAny
  \/ ServeHTTPReturns
  \/ ConnectWrite
  \/ DoReadAcquire
  \/ StreamFirstPull
  \/ StreamWrite
  \/ StreamPull
  \/ StreamDeregister
  \/ StreamClose
  \/ StreamSentinel
  \/ DoReadDeregister
  \/ DoReadClose
  \/ DoWriteAcquire
  \/ DoWriteCopy
  \/ DoWriteDeregister
  \/ DoWriteClose

SpecSeq == Init /\ [][NextSeq]_vars

\* Clients that connect and write bodies of up to MaxChunks chunks (an empty
\* body included), concurrently.
WriteQueries == {ConnectQuery} \cup {WritePrefix \o UUID(t) : t \in Tun}

DispatchWrite ==
  \E r \in Req, q \in WriteQueries :
    \E chunks \in (IF q = ConnectQuery THEN {0} ELSE 0..MaxChunks) :
      handleTunnelRequestCore(r, q, chunks)

NextWrite ==
  \/ DispatchWrite
  \/ ConnectWrite
  \/ DoWriteAcquire
  \/ DoWriteGranted
  \/ DoWriteCopy
  \/ DoWriteDeregister
  \/ DoWriteClose

SpecWrite == Init /\ [][NextWrite]_vars

\* Clients that connect and read, concurrently, from instruction sources that
\* hold one batch more than those of Spec, on a server whose ResponseWriter
\* implements http.Flusher (as that of net/http does).
ReadQueries == {ConnectQuery} \cup {ReadPrefix \o UUID(t) : t \in Tun}

DispatchRead == \E r \in Req, q \in ReadQueries : handleTunnelRequestCore(r, q, 0)

InitRead == InitWith(MaxBatches + 1, {TRUE})

NextRead ==
  \/ DispatchRead
  \/ ConnectWrite
  \/ DoReadAcquire
  \/ DoReadGranted
  \/ StreamFirstPull
  \/ StreamWrite
  \/ StreamPull
  \/ StreamDeregister
  \/ StreamClose
  \/ StreamSentinel
  \/ DoReadDeregister
  \/ DoReadClose

SpecRead == InitRead /\ [][NextRead]_vars

\* One client that connects and then reads the tunnel it got, whose source
\* holds two batches, with several requests at a time, and handlers that keep
\* running: every goroutine that
\* can take a step eventually takes it (the source answers a pull, a response
\* write returns, a role that is free is granted to the head of its queue).
DispatchYield ==
  \/ handleTunnelRequestCore(1, ConnectQuery, 0)
  \/ \E r \in Req \ {1} : handleTunnelRequestCore(r, ReadPrefix \o UUID(1), 0)

NextYield ==
  \/ DispatchYield
  \/ ConnectWrite
  \/ DoReadAcquire
  \/ DoReadGranted
  \/ StreamFirstPull
  \/ StreamWrite
  \/ StreamPull
  \/ StreamDeregister
  \/ StreamClose
  \/ StreamSentinel
  \/ DoReadDeregister
  \/ DoReadClose

FairRead ==
  \A r \in Req :
    /\ WF_vars(connectWrite(r))
    /\ WF_vars(doReadAcquire(r))
    /\ WF_vars(doReadGranted(r))
    /\ WF_vars(streamFirstPull(r))
    /\ WF_vars(streamWrite(r))
    /\ WF_vars(streamPull(r))
    /\ WF_vars(streamDeregister(r))
    /\ WF_vars(streamClose(r))
    /\ WF_vars(streamSentinel(r))
    /\ WF_vars(doReadDeregister(r))
    /\ WF_vars(doReadClose(r))

\* One batch for the holder of the reader role and one that is left for the
\* request it yields to.
YieldBatches == 2

InitYield == InitWith(YieldBatches, {TRUE})

SpecYield == InitYield /\ [][NextYield]_vars /\ FairRead

\* ------------------------------------------------------------ properties
\* The identity a read or write query carries (the fixed-length slice taken
\* by handleTunnelRequestCore).
QueryIdentity(q) ==
  IF HasPrefix(q, ReadPrefix)
  THEN Slice(q, ReadPrefixLength, ReadPrefixLength + UuidLength)
  ELSE Slice(q, WritePrefixLength, WritePrefixLength + UuidLength)

\* Request r is dispatched in this step as a read or a write.
DispatchedReadWrite(r) ==
  /\ req[r].pc = "idle"
  /\ req'[r].pc # "idle"
  /\ req'[r].op \in {"read", "write"}
  /\ req'[r].ret # "panic"

Done(r) == req[r].pc = "done"

\* C1: a tunnel is torn down exactly once: the bridge calls Close of a tunnel
\* at most once over all requests and interleavings, and at least once when
\* a finished request saw its first pull or its relay fail.
C1_TornDownExactlyOnce ==
  \A t \in Tun :
    /\ closeCount[t] <= 1
    /\ (\E r \in Req : Done(r) /\ req[r].tun = t /\ (req[r].firstFail \/ req[r].relayFail))
         => closeCount[t] >= 1

\* C2: a read or write whose identity is not in the registry returns
\* ErrResourceNotFound and nothing else; this holds in particular for every
\* request dispatched after a read request has torn the tunnel down.
C2_UnknownIdentityNotFound ==
  [][\A r \in Req :
       DispatchedReadWrite(r) =>
         LET id == QueryIdentity(req'[r].query)
             notFound == Done(r)' /\ req'[r].ret = "ErrResourceNotFound"
         IN /\ ~MapHas(tunnels, id) => notFound
            /\ (\E r0 \in Req : /\ Done(r0) /\ req[r0].op = "read" /\ req[r0].closes > 0
                                /\ id = UUID(req[r0].tun))
                 => notFound]_vars

C2_Witness ==
  \E r, r0 \in Req :
    /\ Done(r) /\ req[r].op \in {"read", "write"} /\ req[r].ret = "ErrResourceNotFound"
    /\ Done(r0) /\ req[r0].op = "read" /\ req[r0].err = "ErrConnectionClosed"
    /\ req[r0].closes > 0
    /\ QueryIdentity(req[r].query) = UUID(req[r0].tun)

\* C3: once a connect has returned an identity, a read or write dispatched
\* with that identity resolves the connect's tunnel (no not-found), provided
\* the tunnel has not been deregistered in between.
C3_RegistrationVisible ==
  [][\A r, c \in Req :
       ( /\ DispatchedReadWrite(r)
         /\ Done(c) /\ req[c].op = "connect" /\ req[c].ret = "nil"
         /\ deregCount[req[c].tun] = 0
         /\ QueryIdentity(req'[r].query) = req[c].body[1] )
       => /\ req'[r].tun = req[c].tun
          /\ req'[r].ret = "none"
          /\ req'[r].pc \in {"r_acquire", "w_acquire"}]_vars

C3_Witness ==
  \E r, c \in Req :
    /\ Done(c) /\ req[c].op = "connect" /\ req[c].ret = "nil"
    /\ req[r].op \in {"read", "write"} /\ req[r].tun = req[c].tun
    /\ QueryIdentity(req[r].query) = req[c].body[1]

Batches == {Batch(n) : n \in 1..(MaxBatches + 1)}

Registered(t) == MapHas(tunnels, UUID(t)) /\ MapGet(tunnels, UUID(t)) = t

\* Read request r ended its loop by yielding to a queued reader and finished
\* without any failure.
YieldedCleanly(r) ==
  Done(r) /\ req[r].op = "read" /\ req[r].yielded /\ ~req[r].respFail /\ req[r].ret = "nil"

EndsWithSentinel(b) == Len(b) >= 1 /\ b[Len(b)] = Sentinel

\* C4 as stated: whenever the read loop ended by yielding and nothing failed,
\* the tunnel is still registered and not closed when the request finishes,
\* and the sentinel has been written and flushed.
C4_YieldLeavesTunnelRegistered ==
  \A r \in Req :
    YieldedCleanly(r) =>
      /\ Registered(req[r].tun)
      /\ closeCount[req[r].tun] = 0
      /\ EndsWithSentinel(req[r].body)
      /\ req[r].flushed = Len(req[r].body)

\* C4 amended: a read request that yielded and did not fail has itself neither
\* deregistered nor closed the tunnel, so the tunnel is still registered
\* unless another request deregistered it; the sentinel is the last chunk of
\* the body, and the body is flushed when the response supports flushing.
C4_YieldDoesNotTearDown ==
  \A r \in Req :
    YieldedCleanly(r) =>
      /\ req[r].deregs = 0
      /\ req[r].closes = 0
      /\ deregCount[req[r].tun] = 0 => Registered(req[r].tun)
      /\ EndsWithSentinel(req[r].body)
      /\ flusher => req[r].flushed = Len(req[r].body)

C4_Witness ==
  \E r \in Req :
    /\ YieldedCleanly(r)
    /\ Registered(req[r].tun)
    /\ closeCount[req[r].tun] = 0
    /\ req[r].flushed = Len(req[r].body)

\* C5: the body of a read response never holds the sentinel twice, and the
\* body of a successful read response is the batches written, in the order
\* written, followed by exactly one sentinel.
C5_SentinelExactlyOnce ==
  \A r \in Req :
    req[r].op = "read" =>
      /\ \A i, j \in 1..Len(req[r].body) :
           (req[r].body[i] = Sentinel /\ req[r].body[j] = Sentinel) => i = j
      /\ (Done(r) /\ req[r].ret = "nil") =>
           /\ EndsWithSentinel(req[r].body)
           /\ \A i \in 1..(Len(req[r].body) - 1) : req[r].body[i] \in Batches

C5_Witness ==
  \E r \in Req :
    /\ Done(r) /\ req[r].op = "read" /\ req[r].ret = "nil"
    /\ Len(req[r].body) >= 2
    /\ EndsWithSentinel(req[r].body)

\* C6 as stated: when the first pull of a read request fails, no body bytes
\* are written and the tunnel is deregistered and closed.
C6_FirstPullFailureWritesNothing ==
  \A r \in Req :
    (Done(r) /\ req[r].firstFail) =>
      /\ req[r].body = <<>>
      /\ ~MapHas(tunnels, UUID(req[r].tun))
      /\ closeCount[req[r].tun] >= 1

\* C6 amended: when the first pull of a read request fails, no instruction
\* batch is written and the request deregisters and closes the tunnel; the
\* body stays empty except that for a connection-closed failure the sentinel
\* is written (best effort) after the teardown.
C6_FirstPullFailureTearsDown ==
  \A r \in Req :
    req[r].firstFail =>
      /\ \A i \in 1..Len(req[r].body) : req[r].body[i] \notin Batches
      /\ Done(r) =>
           /\ req[r].deregs = 1
           /\ req[r].closes = 1
           /\ ~MapHas(tunnels, UUID(req[r].tun))
           /\ closeCount[req[r].tun] >= 1
           /\ \/ req[r].body = <<>>
              \/ req[r].body = <<Sentinel>> /\ req[r].ret = "ErrConnectionClosed"

C6_Witness ==
  \E r \in Req :
    /\ Done(r) /\ req[r].firstFail
    /\ req[r].body = <<Sentinel>>
    /\ closeCount[req[r].tun] >= 1

\* C7: when the relay of a write request's body fails, doWrite deregisters
\* and closes the tunnel and returns the relay failure, whether Close
\* succeeds or fails.
C7_RelayFailurePropagated ==
  \A r \in Req :
    (Done(r) /\ req[r].relayFail) =>
      /\ req[r].deregs = 1
      /\ req[r].closes = 1
      /\ req[r].ret = "raw"

\* C8: per tunnel at most one request is between AcquireReader and
\* ReleaseReader and at most one between AcquireWriter and ReleaseWriter, a
\* request pulls from the instruction source only while it holds the reader
\* role, and a read and a write of one tunnel can be in progress together.
ReaderPcs == {"r_first", "r_write", "r_pull", "s_dereg", "s_close", "r_sentinel",
              "d_dereg", "d_close"}
WriterPcs == {"w_copy", "w_dereg", "w_close"}

C8_RoleExclusion ==
  \A r1, r2 \in Req :
    /\ (req[r1].pc \in ReaderPcs /\ req[r2].pc \in ReaderPcs /\ req[r1].tun = req[r2].tun)
         => r1 = r2
    /\ (req[r1].pc \in WriterPcs /\ req[r2].pc \in WriterPcs /\ req[r1].tun = req[r2].tun)
         => r1 = r2
    /\ req[r1].pc \in {"r_first", "r_pull"} => readerHolder[req[r1].tun] = r1

C8_Witness ==
  \E r, w \in Req :
    /\ req[r].tun = req[w].tun
    /\ req[r].pc = "r_pull" /\ readerHolder[req[r].tun] = r
    /\ req[w].pc = "w_copy" /\ writerHolder[req[w].tun] = w

\* C9: an empty query yields a client error, and so does every query that is
\* not "connect" and not a read or write prefix followed by a full identity,
\* a prefix followed by fewer than 36 characters included.
FullIdentity(q, prefix) == HasPrefix(q, prefix) /\ Len(q) >= Len(prefix) + UuidLength

MalformedOperation(q) ==
  /\ q # <<>>
  /\ q # ConnectQuery
  /\ ~FullIdentity(q, ReadPrefix)
  /\ ~FullIdentity(q, WritePrefix)

C9_MalformedQueryIsClientError ==
  \A r \in Req :
    Done(r) =>
      /\ req[r].query = <<>> => (req[r].ret = "ErrClient" /\ ServeHTTP(req[r]) = "error")
      /\ MalformedOperation(req[r].query) =>
           (req[r].ret = "ErrClient" /\ ServeHTTP(req[r]) = "error")

\* C10: when the write of the identity fails in connect, connect returns a
\* server error and leaves registry and tunnel as they are: unless a request
\* has deregistered the tunnel it is still registered and not closed, and a
\* read or write dispatched later with its identity resolves it.
C10_ConnectWriteFailureKeepsTunnel ==
  [][/\ \A c \in Req :
          (req[c].pc = "c_write" /\ Done(c)' /\ req'[c].respFail) =>
            /\ req'[c].ret = "ErrServer"
            /\ tunnels' = tunnels
            /\ closeCount' = closeCount
            /\ deregCount[req[c].tun] = 0 =>
                 (Registered(req[c].tun)' /\ closeCount'[req[c].tun] = 0)
     /\ \A r, c \in Req :
          ( /\ DispatchedReadWrite(r)
            /\ Done(c) /\ req[c].op = "connect" /\ req[c].respFail
            /\ deregCount[req[c].tun] = 0
            /\ QueryIdentity(req'[r].query) = UUID(req[c].tun) )
          => req'[r].tun = req[c].tun /\ req'[r].ret = "none"]_vars

C10_Witness ==
  \E r, c \in Req :
    /\ Done(c) /\ req[c].op = "connect" /\ req[c].respFail /\ req[c].ret = "ErrServer"
    /\ Registered(req[c].tun) /\ closeCount[req[c].tun] = 0
    /\ c < r /\ req[r].op \in {"read", "write"} /\ req[r].tun = req[c].tun

\* C11: a connect whose session establishment fails returns
\* ErrResourceNotFound and leaves the registry unchanged; a step adds a
\* registry entry only as the dispatch of a connect whose session was
\* established, a step removes an entry only as the deregisterTunnel of a read
\* or write request that holds a failure (of a pull, a response write or
\* the relay), and every entry present is the tunnel of such a connect.
ConnectFailed(r) ==
  Done(r) /\ req[r].op = "connect" /\ req[r].ret = "ErrResourceNotFound" /\ req[r].tun = 0

C11_RegistryOnlyConnectAndTeardown ==
  [][/\ \A r \in Req : (req[r].pc = "idle" /\ ConnectFailed(r)') => tunnels' = tunnels
     /\ \A e \in tunnels' \ tunnels :
          \E r \in Req : /\ req[r].pc = "idle"
                         /\ req'[r].op = "connect" /\ req'[r].pc = "c_write"
                         /\ e = <<UUID(req'[r].tun), req'[r].tun>>
     /\ \A e \in tunnels \ tunnels' :
          \E r \in Req : /\ req[r].op \in {"read", "write"}
                         /\ req[r].pc \in {"s_dereg", "d_dereg", "w_dereg"}
                         /\ req[r].err # "nil"
                         /\ e = <<UUID(req[r].tun), req[r].tun>>
                         /\ req'[r].deregs = req[r].deregs + 1
     /\ \A e \in tunnels' :
          \E c \in Req : /\ req'[c].op = "connect" /\ ~ConnectFailed(c)'
                         /\ e = <<UUID(req'[c].tun), req'[c].tun>>]_vars

C11_Witness ==
  \E f, c, r \in Req :
    /\ ConnectFailed(f)
    /\ req[c].op = "connect" /\ req[c].tun \in Tun
    /\ req[r].op \in {"read", "write"} /\ req[r].tun = req[c].tun /\ req[r].deregs = 1
    /\ ~MapHas(tunnels, UUID(req[c].tun))

\* C12: characters after the identity are ignored. A read or write whose
\* query is the prefix, 36 characters T and any suffix (the empty one
\* included) leaves handleTunnelRequestCore in the state that depends on the
\* operation and on T only: it resolves the tunnel registered under T, or
\* returns ErrResourceNotFound when there is none.
DispatchOutcome(op, T) ==
  LET rec == [IdleReq EXCEPT !.op = op] IN
  IF ~MapHas(tunnels, T) THEN Return(rec, "ErrResourceNotFound")
  ELSE IF op = "read"
  THEN [rec EXCEPT !.pc = "r_acquire", !.tun = MapGet(tunnels, T)]
  ELSE [rec EXCEPT !.pc = "w_acquire", !.tun = MapGet(tunnels, T),
                   !.hdr = {"Content-Type", "Cache-Control", "Content-Length"}]

C12_TrailingCharactersIgnored ==
  [][\A r \in Req :
       DispatchedReadWrite(r) =>
         LET q == req'[r].query
             prefix == IF req'[r].op = "read" THEN ReadPrefix ELSE WritePrefix
             T == SubSeq(q, Len(prefix) + 1, Len(prefix) + UuidLength)
         IN /\ [req'[r] EXCEPT !.query = <<>>, !.chunks = 0] = DispatchOutcome(req'[r].op, T)
            /\ (\E t \in Tun : T = UUID(t) /\ Registered(t)) =>
                 (req'[r].ret = "none" /\ T = UUID(req'[r].tun))]_vars

C12_Witness ==
  \E r \in Req, t \in Tun :
    /\ req[r].query = WritePrefix \o UUID(t) \o Suffix
    /\ req[r].tun = t
    /\ Done(r) /\ req[r].ret = "nil"

\* C13: the chunks a tunnel has received from a write request are the chunks
\* of the request's body copied so far, unmodified and in the body's order;
\* they are the whole body once a request whose relay did not fail has
\* finished; and the chunks of one request are contiguous in what the tunnel
\* received (two writes of one tunnel never interleave).
ReceivedFrom(t, r) == SelectSeq(received[t], LAMBDA c : c[1] = r)

C13_RelayUnmodifiedInOrder ==
  \A r \in Req :
    (req[r].op = "write" /\ req[r].tun \in Tun) =>
      LET log == received[req[r].tun] IN
      /\ ReceivedFrom(req[r].tun, r) = SubSeq(RequestBody(r), 1, req[r].copied)
      /\ (Done(r) /\ ~req[r].relayFail) => ReceivedFrom(req[r].tun, r) = RequestBody(r)
      /\ \A i, j, k \in 1..Len(log) :
           (i < k /\ k < j /\ log[i][1] = r /\ log[j][1] = r) => log[k][1] = r

C13_Witness ==
  \E r1, r2 \in Req :
    /\ r1 < r2
    /\ req[r1].op = "write" /\ req[r2].op = "write"
    /\ req[r1].tun \in Tun /\ req[r1].tun = req[r2].tun
    /\ req[r1].chunks = MaxChunks /\ req[r2].chunks = MaxChunks
    /\ Done(r1) /\ Done(r2) /\ ~req[r1].relayFail /\ ~req[r2].relayFail
    /\ received[req[r1].tun] = RequestBody(r2) \o RequestBody(r1)

\* The numbers of the batches of tunnel t that are in a response body, that
\* are pulled and about to be written, and whose write to the response failed.
BatchNo(c) == CHOOSE n \in 1..(MaxBatches + 1) : Batch(n) = c

Written(t) ==
  {n \in 1..(MaxBatches + 1) :
     \E r \in Req : req[r].tun = t /\ \E i \in 1..Len(req[r].body) : req[r].body[i] = Batch(n)}

InFlight(t) == {req[r].msg : r \in {x \in Req : req[x].tun = t /\ req[x].pc = "r_write"}}

Lost(t) ==
  {req[r].msg : r \in {x \in Req : req[x].tun = t /\ req[x].op = "read" /\ req[x].err = "ErrOther"}}

\* C14 as stated: every batch the source of a tunnel has produced is in a
\* response body, or is about to be written, exactly once: none is lost and
\* none is duplicated.
C14_NothingLostOrDuplicated ==
  \A t \in Tun :
    /\ Written(t) \cup InFlight(t) = 1..srcCount[t]
    /\ \A r1, r2 \in Req :
         \A i \in 1..Len(req[r1].body), j \in 1..Len(req[r2].body) :
           ( /\ req[r1].tun = t /\ req[r2].tun = t
             /\ req[r1].body[i] \in Batches /\ req[r1].body[i] = req[r2].body[j] )
           => (r1 = r2 /\ i = j)

\* C14 amended: the batches are written in the order the source produced
\* them, none twice, and a batch is lost only when its write to the response
\* failed; a loop that yields or ends drops nothing. Step by step: a pull
\* takes the next batch of the source only after every earlier batch was
\* written to a body or lost to a failed write; a write appends the batch
\* pulled last, which is in no body yet; and a body changes by appending
\* only.
C14_OrderPreservedLossOnlyOnWriteFailure ==
  [][\A r \in Req :
       (req[r].op = "read" /\ req[r].tun \in Tun) =>
         LET t == req[r].tun
             last == req'[r].body[Len(req'[r].body)]
         IN /\ req'[r].msg # req[r].msg =>
                 /\ req'[r].msg = srcCount[t] + 1
                 /\ srcCount'[t] = srcCount[t] + 1
                 /\ Written(t) \cup Lost(t) = 1..srcCount[t]
                 /\ Written(t) \cap Lost(t) = {}
            /\ req'[r].body # req[r].body =>
                 /\ req'[r].body = Append(req[r].body, last)
                 /\ last \in Batches =>
                      /\ last = Batch(req[r].msg)
                      /\ req[r].msg = srcCount[t]
                      /\ req[r].msg \notin Written(t) \cup Lost(t)
            /\ srcCount'[t] # srcCount[t] =>
                 \E p \in Req : req[p].tun = t /\ req'[p].msg = srcCount'[t]]_vars

C14_Witness ==
  \E r1, r2 \in Req :
    /\ req[r1].tun \in Tun /\ req[r1].tun = req[r2].tun
    /\ YieldedCleanly(r1) /\ req[r1].body = <<Batch(1), Sentinel>>
    /\ Done(r2) /\ req[r2].ret = "nil" /\ req[r2].body = <<Batch(2), Sentinel>>

\* C15: early yield. While a request holds the reader role of a tunnel and
\* another is queued for it, the queue stays non-empty; the first batch the
\* holder writes ends its loop (it goes to the sentinel without another
\* pull), it writes no batch after that, and its next step writes the
\* sentinel (or fails to) and releases the role; the role then goes to the
\* head of the queue, and every queued request gets the role eventually.
BatchCount(b) == Len(SelectSeq(b, LAMBDA c : c \in Batches))

C15_YieldStep ==
  \A r \in Req :
    (req[r].tun \in Tun /\ readerHolder[req[r].tun] = r) =>
      LET t == req[r].tun IN
      /\ (readerQueue[t] # <<>> /\ readerHolder'[t] = r) => readerQueue'[t] # <<>>
      /\ (readerQueue[t] # <<>> /\ BatchCount(req'[r].body) > BatchCount(req[r].body))
           => (req'[r].pc = "r_sentinel" /\ req'[r].yielded)
      /\ req[r].yielded =>
           /\ BatchCount(req'[r].body) = BatchCount(req[r].body)
           /\ req'[r] # req[r] =>
                /\ Done(r)' /\ readerHolder'[t] = 0
                /\ EndsWithSentinel(req'[r].body) \/ req'[r].respFail
      /\ (readerQueue[t] # <<>> /\ readerHolder'[t] = 0) =>
           /\ req'[Head(readerQueue[t])].pc = "r_wait"
           /\ readerQueue'[t] = readerQueue[t]

C15_GrantStep ==
  \A t \in Tun :
    (readerHolder[t] = 0 /\ readerQueue[t] # <<>> /\ readerHolder'[t] # 0) =>
      /\ readerHolder'[t] = Head(readerQueue[t])
      /\ readerQueue'[t] = Tail(readerQueue[t])

C15_EarlyYield ==
  /\ [][C15_YieldStep /\ C15_GrantStep]_vars
  /\ \A r \in Req : (req[r].pc = "r_wait") ~> (req[r].tun \in Tun /\ readerHolder[req[r].tun] = r)

C15_Witness ==
  \E r1, r2 \in Req :
    /\ req[r1].tun \in Tun /\ req[r1].tun = req[r2].tun
    /\ YieldedCleanly(r1) /\ BatchCount(req[r1].body) = 1
    /\ srcCount[req[r1].tun] = 1
    /\ readerHolder[req[r2].tun] = r2 /\ req[r2].pc = "r_first"

\* Read request r is blocked in ReadSome: in its first pull, or in a pull of
\* the loop after Available() reported that no batch is at hand.
BlockedOnSource(r) ==
  \/ req[r].pc = "r_first"
  \/ req[r].pc = "r_pull" /\ req[r].wouldBlock

\* C16 as stated: whenever a read request is blocked waiting for the source,
\* the response headers and every batch it has written have been flushed.
C16_FlushedWhenBlocked ==
  \A r \in Req :
    BlockedOnSource(r) => (req[r].hdrFlushed /\ req[r].flushed = Len(req[r].body))

\* C16 amended: whenever a read request is blocked waiting for the source
\* and the response implements http.Flusher, the response headers and every
\* batch it has written have been flushed; when the response does not
\* implement it, nothing is ever flushed by the handler.
C16_FlushedWhenBlockedIfFlusher ==
  \A r \in Req :
    /\ (BlockedOnSource(r) /\ flusher) =>
         (req[r].hdrFlushed /\ req[r].flushed = Len(req[r].body))
    /\ ~flusher => (~req[r].hdrFlushed /\ req[r].flushed = 0)
    /\ req[r].pc = "r_first" => req[r].body = <<>>

C16_Witness ==
  \E r \in Req :
    /\ flusher
    /\ req[r].pc = "r_pull" /\ req[r].wouldBlock
    /\ req[r].body = <<Batch(1)>> /\ req[r].flushed = 1 /\ req[r].hdrFlushed

\* C17: a request holds the reader (writer) role of a tunnel exactly from its
\* AcquireReader (AcquireWriter) to the step in which it finishes, on every
\* exit path: the holder of a role is a request between the acquisition and
\* its return, every such request holds the role, and the requests queued
\* for a role are those blocked in the acquisition; so no finished request
\* holds or waits for a role and no role is taken from a request that holds
\* it.
InQueue(q, r) == \E i \in 1..Len(q) : q[i] = r

C17_RolesReleasedOnExit ==
  /\ \A t \in Tun :
       /\ readerHolder[t] # 0 =>
            (req[readerHolder[t]].pc \in ReaderPcs /\ req[readerHolder[t]].tun = t)
       /\ writerHolder[t] # 0 =>
            (req[writerHolder[t]].pc \in WriterPcs /\ req[writerHolder[t]].tun = t)
       /\ \A i \in 1..Len(readerQueue[t]) :
            LET w == req[readerQueue[t][i]] IN w.pc = "r_wait" /\ w.tun = t
       /\ \A i \in 1..Len(writerQueue[t]) :
            LET w == req[writerQueue[t][i]] IN w.pc = "w_wait" /\ w.tun = t
  /\ \A r \in Req :
       /\ req[r].pc \in ReaderPcs => readerHolder[req[r].tun] = r
       /\ req[r].pc \in WriterPcs => writerHolder[req[r].tun] = r
       /\ req[r].pc = "r_wait" => InQueue(readerQueue[req[r].tun], r)
       /\ req[r].pc = "w_wait" => InQueue(writerQueue[req[r].tun], r)

C17_Witness ==
  \E r, w \in Req, t \in Tun :
    /\ Done(r) /\ req[r].op = "read" /\ req[r].tun = t /\ req[r].err = "ErrOther"
    /\ req[r].closes = 1
    /\ Done(w) /\ req[w].op = "write" /\ req[w].tun = t /\ req[w].relayFail
    /\ readerHolder[t] = 0 /\ writerHolder[t] = 0

\* C18: a read or write whose identity is not in the registry returns
\* ErrResourceNotFound in the step that dispatches it, and that step changes
\* nothing but the request: registry, roles and their queues, Close and
\* deregistration counts, instruction sources and what tunnels received stay
\* as they are, and the request has set no header, written no body byte,
\* flushed nothing and resolved no tunnel.
C18_NotFoundHasNoSideEffects ==
  [][\A r \in Req :
       (DispatchedReadWrite(r) /\ ~MapHas(tunnels, QueryIdentity(req'[r].query))) =>
         /\ Done(r)' /\ req'[r].ret = "ErrResourceNotFound"
         /\ UNCHANGED <<tunnels, nextTunnel, closeCount, deregCount, readerHolder,
                        readerQueue, writerHolder, writerQueue, srcCount, received>>
         /\ req'[r].hdr = {} /\ req'[r].body = <<>>
         /\ req'[r].flushed = 0 /\ ~req'[r].hdrFlushed
         /\ req'[r].tun = 0 /\ req'[r].deregs = 0 /\ req'[r].closes = 0
         /\ \A o \in Req \ {r} : req'[o] = req[o]]_vars

C18_Witness ==
  \E r \in Req, t \in Tun :
    /\ Done(r) /\ req[r].op = "write" /\ req[r].ret = "ErrResourceNotFound"
    /\ req[r].query = WritePrefix \o UUID(0)
    /\ req[r].hdr = {}
    /\ Registered(t) /\ closeCount[t] = 0

\* C19: when the write of the sentinel at the end of stream fails, the read
\* request finishes with an error that ServeHTTP renders (sendError) and
\* logs, whether or not stream tore the tunnel down before, and the request
\* has closed the tunnel at most once.
SentinelWriteFailed(r) ==
  Done(r) /\ req[r].op = "read" /\ req[r].err = "raw" /\ req[r].respFail

C19_SentinelFailureReported ==
  \A r \in Req :
    SentinelWriteFailed(r) =>
      /\ req[r].ret \in ErrKinds
      /\ ServeHTTP(req[r]) = "error"
      /\ req[r].closes <= 1

\* C20: deregistration precedes Close on every teardown path: a request that
\* is about to call Close has deregistered the tunnel, no tunnel the bridge
\* has closed is in the registry, a lookup of its identity returns
\* ErrResourceNotFound, and no request has closed more often than it has
\* deregistered.
C20_DeregisteredBeforeClose ==
  /\ \A t \in Tun :
       /\ closeCount[t] <= deregCount[t]
       /\ closeCount[t] > 0 => getTunnel(tunnels, UUID(t)) = <<0, "ErrResourceNotFound">>
  /\ \A r \in Req :
       /\ req[r].closes <= req[r].deregs
       /\ req[r].pc \in {"s_close", "d_close", "w_close"} =>
            (req[r].deregs = req[r].closes + 1 /\ ~MapHas(tunnels, UUID(req[r].tun)))

C20_Witness ==
  \E c, r, q \in Req, t \in Tun :
    /\ req[c].op = "connect" /\ req[c].tun = t
    /\ req[r].tun = t /\ req[r].closes = 1 /\ closeCount[t] = 1
    /\ c < q /\ Done(q) /\ req[q].op \in {"read", "write"}
    /\ QueryIdentity(req[q].query) = UUID(t)
    /\ req[q].ret = "ErrResourceNotFound"

====
